---- MODULE Spec2Model ----
(***************************************************************************)
(* Vote casting and ledger reconciliation of app/routes/vote_routes.py,    *)
(* and the district-admin approval and voter enrolment of app/main.py.     *)
(*                                                                         *)
(* A Python str is modelled as a sequence of one-character strings, so the *)
(* payload encoding (execute_blockchain_command) and its decoding          *)
(* (extract_pattern_from_blockchain, split("-", 1), strip()) are computed  *)
(* character by character as the code computes them.  Python's 0-based     *)
(* indexes become 1-based, and find()'s -1 becomes 0.                      *)
(***************************************************************************)
EXTENDS Integers, Sequences, FiniteSets, TLC

VARIABLES votes, ledger, pc, loc, resp, ncalls, nedits, admins, voters

vars == <<votes, ledger, pc, loc, resp, ncalls, nedits, admins, voters>>

-----------------------------------------------------------------------------
(* Bounds of the model.                                                    *)

\* Requests (cast_vote, check_vote, get_results or verify_election_integrity)
\* submitted in a behaviour.
MaxCalls == 3

\* Out-of-band edits of the vote store in a behaviour.
MaxEdits == 1

\* Request-handling threads (FastAPI runs each sync endpoint in a thread pool).
Threads == {"t1", "t2"}

\* Elections that exist in election_collection, and the ids a request may name:
\* an id that parses as an ObjectId but names no document, and one that does
\* not parse.
Elections == {"E1", "E2"}
UnknownElection == "E0"
BadElectionId == "not-an-objectid"
ElectionIds == Elections \cup {UnknownElection, BadElectionId}

\* The declared candidate names of each election (election["candidates"]).
CandidateNames(e) == IF e = "E1" THEN {<<"A">>, <<"B">>} ELSE {<<"A">>}

\* Candidate names a request may submit ("B" is not declared in E2).
RequestCandidates == {<<"A">>, <<"B">>}

\* EPIC ids a request may submit.  Vote.epic_id is an unvalidated str: a plain
\* id, one with leading whitespace, one holding '-', one holding ' -'.
EpicIds == {<<"v">>, <<" ", "v">>, <<"v", "-", "w">>, <<"v", " ", "-">>}

\* Values an out-of-band edit may write into a stored entry: another voter's
\* id, another candidate, and a candidate that differs only in whitespace.
EditEpics == {<<"w">>}
EditCandidates == {<<"B">>, <<"A", " ">>}

-----------------------------------------------------------------------------
(* Python string operations.                                               *)

Whitespace == {" "}

RECURSIVE lstrip(_)
lstrip(s) == IF s # <<>> /\ Head(s) \in Whitespace THEN lstrip(Tail(s)) ELSE s

RECURSIVE rstrip(_)
rstrip(s) ==
    IF s # <<>> /\ s[Len(s)] \in Whitespace
    THEN rstrip(SubSeq(s, 1, Len(s) - 1))
    ELSE s

\* str.strip()
strip(s) == rstrip(lstrip(s))

\* text.find(token, from): the least index >= from where token occurs, else 0.
find(text, token, from) ==
    LET hits == {i \in from..(Len(text) - Len(token) + 1) :
                    SubSeq(text, i, i + Len(token) - 1) = token}
    IN  IF hits = {} THEN 0 ELSE CHOOSE i \in hits : \A j \in hits : i <= j

\* token in text
contains(text, token) == find(text, token, 1) # 0

\* text.split(token, 1) for a text that holds the token: <<before, after>>.
split1(text, token) ==
    LET p == find(text, token, 1)
    IN  <<SubSeq(text, 1, p - 1), SubSeq(text, p + Len(token), Len(text))>>

start_token == <<"{", "{", "{">>
end_token == <<"}", "}", "}">>
field_sep == <<"|", "|", "|">>
dash == <<"-">>

-----------------------------------------------------------------------------
(* The ledger encoding.                                                    *)

\* vote_key = f"{{{{{{{epic_id}|||{candidate_name}}}}}}}"
vote_key(epic_id, candidate_name) ==
    start_token \o epic_id \o field_sep \o candidate_name \o end_token

NoKey == [raised |-> TRUE, key |-> <<>>]
Key(k) == [raised |-> FALSE, key |-> k]

\* Step 2 of the extraction.  Steps 3 and 4 (the regex and the printable-chunk
\* fallbacks) are reached only when the text has no "{{{" or no "}}}" at or
\* after start_idx + 3; both fallbacks need a "}}}" after a "{{{", so neither
\* can match there and the function raises.
extract_pattern_from_blockchain(text) ==
    LET start_idx == find(text, start_token, 1)
        end_idx == IF start_idx = 0 THEN 0
                   ELSE find(text, end_token, start_idx + Len(start_token))
        inner == SubSeq(text, start_idx + Len(start_token), end_idx - 1)
    IN  IF start_idx # 0 /\ end_idx # 0
        THEN IF contains(inner, field_sep)
             THEN LET parts == split1(inner, field_sep)
                  IN  Key(strip(parts[1]) \o dash \o strip(parts[2]))
             ELSE Key(strip(inner))
        ELSE NoKey

\* The ledger block of a transaction id, as a set (empty when absent).
Blocks(txn) == {i \in 1..Len(ledger) : ledger[i].transaction_id = txn}

\* query_blockchain_transaction: the peer query fails for an unknown id
\* (returncode != 0), the extraction may raise, and an empty key raises.
query_blockchain_transaction(txn) ==
    IF Blocks(txn) = {} THEN NoKey
    ELSE LET raw == ledger[CHOOSE i \in Blocks(txn) : TRUE].data
             k == extract_pattern_from_blockchain(raw)
         IN  IF k.raised \/ k.key = <<>> THEN NoKey ELSE k

-----------------------------------------------------------------------------
(* State.                                                                  *)

NoTxn == 0

\* A transaction id the ledger never issued, and the transaction ids an
\* out-of-band edit may leave in an entry: none, or the unknown one.
UnknownTxn == 99
EditTxns == {NoTxn, UnknownTxn}

VoteEntry(epic_id, candidate, txn) ==
    [epic_id |-> epic_id, candidate |-> candidate, transaction_id |-> txn]

IdleLoc ==
    [election_id |-> "", epic_id |-> <<>>, candidate_name |-> <<>>,
     txn_id |-> NoTxn, votes |-> <<>>, i |-> 0,
     corrected |-> <<>>, verified |-> <<>>, errors |-> {}, previous |-> {},
     previous_hash |-> <<>>]

\* resp is the outcome of the operation that finished last.
NoResp == [op |-> "none"]

Init ==
    /\ votes = [e \in Elections |-> <<>>]
    /\ ledger = <<>>
    /\ pc = [t \in Threads |-> "idle"]
    /\ loc = [t \in Threads |-> IdleLoc]
    /\ resp = NoResp
    /\ ncalls = 0
    /\ nedits = 0
    /\ admins = <<>>
    /\ voters = {}

\* raise HTTPException(status_code, detail) out of cast_vote
CastError(status, detail, e, epic, cand) ==
    [op |-> "cast", status |-> status, detail |-> detail,
     election_id |-> e, epic_id |-> epic, candidate_name |-> cand]

Return(t, r) ==
    /\ resp' = r
    /\ pc' = [pc EXCEPT ![t] = "idle"]
    /\ loc' = [loc EXCEPT ![t] = IdleLoc]

-----------------------------------------------------------------------------
(* The voter registry that check_vote reads.                               *)

\* election["constituency"] of each election.
Constituency(e) == IF e = "E1" THEN "Hiriyur" ELSE "Dharwad"

\* voter_collection: the enrolled voters, keyed by EPIC id, with their two
\* constituencies.  One voter belongs to both elections' constituencies, one
\* to the first only, one to neither; the id 'v-w' is not enrolled.
Enrolled == {<<"v">>, <<" ", "v">>, <<"v", " ", "-">>}

voter_collection(epic) ==
    CASE epic = <<"v">> ->
            [karnatakaConstituencies |-> "Hiriyur",
             parliamentaryConstituencies |-> "Dharwad"]
      [] epic = <<" ", "v">> ->
            [karnatakaConstituencies |-> "Hiriyur",
             parliamentaryConstituencies |-> "Chitradurga"]
      [] OTHER ->
            [karnatakaConstituencies |-> "Mysuru",
             parliamentaryConstituencies |-> "Mysuru"]

-----------------------------------------------------------------------------
(* cast_vote                                                               *)

\* for existing_vote in election.get("votes", []): epic_id == vote.epic_id
has_voted(vs, epic) == \E i \in 1..Len(vs) : vs[i].epic_id = epic

Passed == [status |-> 200, detail |-> ""]
Failure(status, detail) == [status |-> status, detail |-> detail]

\* The candidate check alone: a cast_validation that forgets to scan the vote
\* list.
cast_validation_no_scan(e, epic, cand) ==
    IF e = BadElectionId THEN Failure(400, "Invalid election ID format.")
    ELSE IF e \notin Elections THEN Failure(404, "Election not found.")
    ELSE IF cand \notin CandidateNames(e)
    THEN Failure(404, "Candidate not found in election.")
    ELSE Passed

\* The vote-list scan alone: a cast_validation that forgets the candidate check.
cast_validation_no_candidate(e, epic, cand) ==
    IF e = BadElectionId THEN Failure(400, "Invalid election ID format.")
    ELSE IF e \notin Elections THEN Failure(404, "Election not found.")
    ELSE IF has_voted(votes[e], epic) THEN Failure(400, "Voter has already voted.")
    ELSE Passed

\* A cast_validation that scans the vote list before it checks the candidate.
cast_validation_scan_first(e, epic, cand) ==
    IF e = BadElectionId THEN Failure(400, "Invalid election ID format.")
    ELSE IF e \notin Elections THEN Failure(404, "Election not found.")
    ELSE IF has_voted(votes[e], epic) THEN Failure(400, "Voter has already voted.")
    ELSE IF cand \notin CandidateNames(e)
    THEN Failure(404, "Candidate not found in election.")
    ELSE Passed

\* A cast_validation that looks the voter up in the registry as check_vote
\* does.
cast_validation_registered(e, epic, cand) ==
    IF e = BadElectionId THEN Failure(400, "Invalid election ID format.")
    ELSE IF e \notin Elections THEN Failure(404, "Election not found.")
    ELSE IF epic \notin Enrolled THEN Failure(404, "Voter not found.")
    ELSE IF Constituency(e) \notin {voter_collection(epic).karnatakaConstituencies,
                                    voter_collection(epic).parliamentaryConstituencies}
    THEN Failure(403, "Voter does not belong to the constituency of this election.")
    ELSE IF cand \notin CandidateNames(e)
    THEN Failure(404, "Candidate not found in election.")
    ELSE IF has_voted(votes[e], epic) THEN Failure(400, "Voter has already voted.")
    ELSE Passed

\* Lines 66-85: parse the id, read the election document, check the candidate
\* and scan the vote list of the document that was read.
cast_validation(e, epic, cand) ==
    IF e = BadElectionId THEN Failure(400, "Invalid election ID format.")
    ELSE IF e \notin Elections THEN Failure(404, "Election not found.")
    ELSE IF cand \notin CandidateNames(e)
    THEN Failure(404, "Candidate not found in election.")
    ELSE IF has_voted(votes[e], epic) THEN Failure(400, "Voter has already voted.")
    ELSE Passed

\* Lines 62-88: a failed validation raises; otherwise the call goes on to the
\* ledger.
CastBegin(t, e, epic, cand) ==
    /\ pc[t] = "idle"
    /\ ncalls < MaxCalls
    /\ ncalls' = ncalls + 1
    /\ UNCHANGED <<votes, ledger, nedits, admins, voters>>
    /\ LET v == cast_validation(e, epic, cand)
       IN  IF v # Passed
           THEN Return(t, CastError(v.status, v.detail, e, epic, cand))
           ELSE /\ pc' = [pc EXCEPT ![t] = "cast_ledger"]
                /\ loc' = [loc EXCEPT ![t] =
                              [IdleLoc EXCEPT !.election_id = e, !.epic_id = epic,
                                              !.candidate_name = cand]]
                /\ UNCHANGED resp

\* The transaction id the ledger gives the next block.
NextTxn == Len(ledger) + 1

\* Lines 88, 17-53: the invoke commits a block holding vote_key and prints its
\* transaction id.  The invoke (line 31) sends vote_key alone: cast_for is not
\* data on the ledger, it keeps for the properties which election the cast
\* that wrote the block was for.
CastLedgerOk(t) ==
    /\ pc[t] = "cast_ledger"
    /\ ledger' = Append(ledger, [transaction_id |-> NextTxn,
                                 data |-> vote_key(loc[t].epic_id,
                                                   loc[t].candidate_name),
                                 cast_for |-> loc[t].election_id])
    /\ loc' = [loc EXCEPT ![t].txn_id = NextTxn]
    /\ pc' = [pc EXCEPT ![t] = "cast_push"]
    /\ UNCHANGED <<votes, resp, ncalls, nedits, admins, voters>>

\* A CastLedgerFail that swallows the failure and goes on without a
\* transaction id.
CastLedgerFailSwallowed(t) ==
    /\ pc[t] = "cast_ledger"
    /\ pc' = [pc EXCEPT ![t] = "cast_push"]
    /\ UNCHANGED <<votes, ledger, loc, resp, ncalls, nedits, admins, voters>>

\* Lines 54-58: the command fails or prints no transaction id: HTTP 500.
CastLedgerFail(t) ==
    /\ pc[t] = "cast_ledger"
    /\ Return(t, CastError(500, "Blockchain error", loc[t].election_id,
                           loc[t].epic_id, loc[t].candidate_name))
    /\ UNCHANGED <<votes, ledger, ncalls, nedits, admins, voters>>

\* Lines 91-107: $push the entry onto the election's vote list and return.
CastPush(t) ==
    /\ pc[t] = "cast_push"
    /\ votes' = [votes EXCEPT ![loc[t].election_id] =
                    Append(@, VoteEntry(loc[t].epic_id, loc[t].candidate_name,
                                        loc[t].txn_id))]
    /\ Return(t, [op |-> "cast", status |-> 200,
                  detail |-> "Vote cast successfully!",
                  election_id |-> loc[t].election_id,
                  epic_id |-> loc[t].epic_id,
                  candidate_name |-> loc[t].candidate_name,
                  candidate |-> loc[t].candidate_name,
                  transaction_id |-> loc[t].txn_id])
    /\ UNCHANGED <<ledger, ncalls, nedits, admins, voters>>

\* A CastPushFail that compensates the failed push by taking the cast's block
\* out of the ledger.
CastPushFailRollback(t) ==
    /\ pc[t] = "cast_push"
    /\ ledger' = SelectSeq(ledger, LAMBDA b : b.transaction_id # loc[t].txn_id)
    /\ Return(t, CastError(500, "Internal Server Error", loc[t].election_id,
                           loc[t].epic_id, loc[t].candidate_name))
    /\ UNCHANGED <<votes, ncalls, nedits, admins, voters>>

\* Lines 98-101: update_one raises (the store is unavailable), the exception
\* leaves cast_vote and the caller gets HTTP 500.
CastPushFail(t) ==
    /\ pc[t] = "cast_push"
    /\ Return(t, CastError(500, "Internal Server Error", loc[t].election_id,
                           loc[t].epic_id, loc[t].candidate_name))
    /\ UNCHANGED <<votes, ledger, ncalls, nedits, admins, voters>>

-----------------------------------------------------------------------------
(* The hash-chained ledger behind the same append contract (another        *)
(* revision of vote_routes.py).  cast_vote calls append in place of         *)
(* execute_blockchain_command; a block is [transaction_id, epic_id,         *)
(* candidate, election_id, previous_hash, current_hash].                    *)

\* previous_hash of the first block of the whole ledger.
Genesis == <<"GENESIS">>

\* The payload joined from the block's fields, and the digest over payload
\* and previous_hash: collision-free, so a pair of its two arguments.
payload(epic_id, candidate, election_id, transaction_id) ==
    <<epic_id, candidate, election_id, transaction_id>>

digest(p, previous_hash) == <<p, previous_hash>>

\* An AppendRead that does not wait for the append in progress.
AppendReadUnlocked(t) ==
    /\ pc[t] = "cast_ledger"
    /\ loc' = [loc EXCEPT ![t].previous_hash =
                  IF ledger = <<>> THEN Genesis
                  ELSE ledger[Len(ledger)].current_hash]
    /\ pc' = [pc EXCEPT ![t] = "append_write"]
    /\ UNCHANGED <<votes, ledger, resp, ncalls, nedits, admins, voters>>

\* append, first half: with the appends serialized (one append at a time), read
\* the block inserted last in the whole ledger for its current_hash.
AppendRead(t) ==
    /\ pc[t] = "cast_ledger"
    /\ \A u \in Threads : pc[u] # "append_write"
    /\ loc' = [loc EXCEPT ![t].previous_hash =
                  IF ledger = <<>> THEN Genesis
                  ELSE ledger[Len(ledger)].current_hash]
    /\ pc' = [pc EXCEPT ![t] = "append_write"]
    /\ UNCHANGED <<votes, ledger, resp, ncalls, nedits, admins, voters>>

\* append, second half: a fresh transaction id, the hash, the durable write;
\* the transaction id goes back to cast_vote.
AppendWrite(t) ==
    /\ pc[t] = "append_write"
    /\ ledger' = Append(ledger,
          [transaction_id |-> NextTxn,
           epic_id |-> loc[t].epic_id,
           candidate |-> loc[t].candidate_name,
           election_id |-> loc[t].election_id,
           previous_hash |-> loc[t].previous_hash,
           current_hash |-> digest(payload(loc[t].epic_id, loc[t].candidate_name,
                                           loc[t].election_id, NextTxn),
                                   loc[t].previous_hash)])
    /\ loc' = [loc EXCEPT ![t].txn_id = NextTxn]
    /\ pc' = [pc EXCEPT ![t] = "cast_push"]
    /\ UNCHANGED <<votes, resp, ncalls, nedits, admins, voters>>

-----------------------------------------------------------------------------
(* check_vote                                                              *)

CheckError(status, detail, e, epic) ==
    [op |-> "check", status |-> status, detail |-> detail,
     election_id |-> e, epic_id |-> epic]

\* A check_scan that compares the ids after trimming them.
check_scan_trimmed(vs, e, epic) ==
    LET hits == {j \in 1..Len(vs) : strip(vs[j].epic_id) = strip(epic)}
    IN  IF hits # {}
        THEN LET j == CHOOSE k \in hits : \A m \in hits : k <= m
             IN  [op |-> "check", status |-> 200, election_id |-> e,
                  epic_id |-> epic, result |-> "already_voted",
                  details |-> [epic_id |-> vs[j].epic_id,
                               candidate |-> vs[j].candidate,
                               txn |-> NoTxn]]
        ELSE [op |-> "check", status |-> 200, election_id |-> e,
              epic_id |-> epic, result |-> "not_voted"]

\* Lines 155-166: the first entry with the EPIC id decides; the details read
\* the key "txn", which no entry written by cast_vote has (line 94 writes
\* "transaction_id"), so v.get("txn") is None.
check_scan(vs, e, epic) ==
    LET hits == {j \in 1..Len(vs) : vs[j].epic_id = epic}
    IN  IF hits # {}
        THEN LET j == CHOOSE k \in hits : \A m \in hits : k <= m
             IN  [op |-> "check", status |-> 200, election_id |-> e,
                  epic_id |-> epic, result |-> "already_voted",
                  details |-> [epic_id |-> vs[j].epic_id,
                               candidate |-> vs[j].candidate,
                               txn |-> NoTxn]]
        ELSE [op |-> "check", status |-> 200, election_id |-> e,
              epic_id |-> epic, result |-> "not_voted"]

\* Lines 113-166.
check_vote(e, epic) ==
    IF e = BadElectionId THEN CheckError(400, "Invalid election ID format.", e, epic)
    ELSE IF e \notin Elections THEN CheckError(404, "Election not found.", e, epic)
    ELSE IF epic \notin Enrolled THEN CheckError(404, "Voter not found.", e, epic)
    ELSE IF Constituency(e) \notin {voter_collection(epic).karnatakaConstituencies,
                                    voter_collection(epic).parliamentaryConstituencies}
    THEN CheckError(403, "Voter does not belong to the constituency of this election.",
                    e, epic)
    ELSE check_scan(votes[e], e, epic)

\* check_vote reads the store and answers; it writes nothing.
CheckVote(t, e, epic) ==
    /\ pc[t] = "idle"
    /\ ncalls < MaxCalls
    /\ ncalls' = ncalls + 1
    /\ resp' = check_vote(e, epic)
    /\ UNCHANGED <<votes, ledger, pc, loc, nedits, admins, voters>>

-----------------------------------------------------------------------------
(* get_results                                                             *)

\* A get_results that groups the ledger's blocks instead of the election's
\* entries.
get_results_from_ledger(e) ==
    IF e \notin Elections THEN {}
    ELSE LET blocks(c) == {i \in 1..Len(ledger) :
                              \E epic \in EpicIds : ledger[i].data = vote_key(epic, c)}
         IN  {[_id |-> c, count |-> Cardinality(blocks(c))] :
                 c \in {d \in RequestCandidates : blocks(d) # {}}}

\* Lines 175-178: $match the election, $unwind its votes and $group them by
\* candidate with a count; an id that names no election matches nothing.
get_results(e) ==
    IF e \notin Elections THEN {}
    ELSE {[_id |-> c, count |-> Cardinality({j \in 1..Len(votes[e]) :
                                               votes[e][j].candidate = c})] :
             c \in {votes[e][j].candidate : j \in 1..Len(votes[e])}}

\* Line 179: {"$sort": {"count": -1}}; groups with equal counts come in any
\* order.
SortedByCount(groups) ==
    {r \in [1..Cardinality(groups) -> groups] :
        /\ \A k, l \in DOMAIN r : k # l => r[k] # r[l]
        /\ \A k, l \in DOMAIN r : k < l => r[k].count >= r[l].count}

\* Lines 169-183.
GetResults(t, e) ==
    /\ pc[t] = "idle"
    /\ ncalls < MaxCalls
    /\ ncalls' = ncalls + 1
    /\ IF e = BadElectionId
       THEN resp' = [op |-> "results", status |-> 400, election_id |-> e,
                     detail |-> "Invalid election ID format."]
       ELSE \E r \in SortedByCount(get_results(e)) :
               resp' = [op |-> "results", status |-> 200, election_id |-> e,
                        results |-> r]
    /\ UNCHANGED <<votes, ledger, pc, loc, nedits, admins, voters>>

-----------------------------------------------------------------------------
(* verify_election_integrity                                               *)

MissingElectionId == ""
VerifyElectionIds == ElectionIds \cup {MissingElectionId}

\* Line 316: the entry differs from the ledger's record.
mismatch(on_chain_epic, on_chain_candidate, epic_id, candidate) ==
    on_chain_epic # epic_id \/ strip(on_chain_candidate) # strip(candidate)

\* A set_matched that takes the matched entry out and puts the corrected one
\* at the end of the list ($pull and $push in place of the positional $set).
set_matched_moved(vs, txn, epic, cand) ==
    LET hits == {j \in 1..Len(vs) : vs[j].transaction_id = txn}
    IN  IF hits = {} THEN vs
        ELSE LET j == CHOOSE k \in hits : \A m \in hits : k <= m
             IN  Append(SubSeq(vs, 1, j - 1) \o SubSeq(vs, j + 1, Len(vs)),
                        VoteEntry(epic, cand, txn))

\* Lines 320-328: update_one({"votes.transaction_id": txn}, {"$set": {"votes.$...}}):
\* the positional operator writes the first array element that matches.
set_matched(vs, txn, epic, cand) ==
    LET hits == {j \in 1..Len(vs) : vs[j].transaction_id = txn}
    IN  IF hits = {} THEN vs
        ELSE LET j == CHOOSE k \in hits : \A m \in hits : k <= m
             IN  [vs EXCEPT ![j].epic_id = epic, ![j].candidate = cand]

\* An entry that is left out of both lists, with the line that leaves it out:
\* 305 (no transaction id), 312 (no usable key), 344 (the except branch).
Skip(line) == [kind |-> "skip", line |-> line]

\* Lines 307-344 for one entry, given the outcome k of the ledger query: a
\* query that raised lands in the except branch, a key without '-' is left
\* out, otherwise the entry is "corrected" or "verified", with the values
\* lines 324-325 would write.
check_key(vote, k) ==
    IF k.raised THEN Skip(344)
    ELSE IF ~contains(k.key, dash) THEN Skip(312)
    ELSE LET parts == split1(k.key, dash)
         IN  IF mismatch(parts[1], parts[2], vote.epic_id, vote.candidate)
             THEN [kind |-> "corrected",
                   epic_id |-> strip(parts[1]),
                   candidate |-> strip(parts[2]),
                   report |-> [transaction_id |-> vote.transaction_id,
                               old |-> vote.epic_id \o dash \o vote.candidate,
                               new |-> k.key]]
             ELSE [kind |-> "verified",
                   epic_id |-> strip(parts[1]),
                   candidate |-> strip(parts[2]),
                   report |-> [transaction_id |-> vote.transaction_id,
                               epic_id |-> vote.epic_id,
                               candidate |-> vote.candidate]]

\* A check_vote_entry without the test of line 303 and without the except
\* branch: a lookup that found nothing is taken for an empty record.
check_vote_entry_no_guard(vote) ==
    LET k == query_blockchain_transaction(vote.transaction_id)
    IN  check_key(vote, IF k.raised THEN Key(dash) ELSE k)

\* Lines 299-344 for one entry of the vote list that was read.
check_vote_entry(vote) ==
    IF vote.transaction_id = NoTxn THEN Skip(305)
    ELSE check_key(vote, query_blockchain_transaction(vote.transaction_id))

\* A store_after whose update_one sits outside the if: it also writes the
\* entries that matched.
store_after_always(vs, r) ==
    IF r.kind \in {"corrected", "verified"}
    THEN set_matched(vs, r.report.transaction_id, r.epic_id, r.candidate)
    ELSE vs

\* Lines 316-328: the vote list of the election after the entry was checked:
\* only a mismatch is written.
store_after(vs, r) ==
    IF r.kind = "corrected"
    THEN set_matched(vs, r.report.transaction_id, r.epic_id, r.candidate)
    ELSE vs

VerifyError(status, detail, e) ==
    [op |-> "verify", status |-> status, detail |-> detail, election_id |-> e]

\* The verify response that finished last for election e with nothing after
\* it, as the set of its results (empty when there is none).
PreviousVerify(e) ==
    IF resp.op = "verify" /\ resp.election_id = e /\ resp.status = 200
    THEN {[k \in DOMAIN resp \ {"previous"} |-> resp[k]]}
    ELSE {}

\* Lines 276-295: check the request, read the election document.
VerifyBegin(t, e) ==
    /\ pc[t] = "idle"
    /\ ncalls < MaxCalls
    /\ ncalls' = ncalls + 1
    /\ UNCHANGED <<votes, ledger, nedits, admins, voters>>
    /\ IF e = MissingElectionId
       THEN Return(t, VerifyError(400, "Missing election_id.", e))
       ELSE IF e = BadElectionId
       THEN Return(t, VerifyError(400, "Invalid election ID format.", e))
       ELSE IF e \notin Elections
       THEN Return(t, VerifyError(404, "Election not found.", e))
       ELSE IF votes[e] = <<>>
       THEN Return(t, [op |-> "verify", status |-> 200, election_id |-> e,
                       message |-> "No votes found in this election.",
                       previous |-> PreviousVerify(e)])
       ELSE /\ pc' = [pc EXCEPT ![t] = "verify_loop"]
            /\ loc' = [loc EXCEPT ![t] =
                          [IdleLoc EXCEPT !.election_id = e, !.votes = votes[e],
                                          !.i = 1, !.previous = PreviousVerify(e)]]
            /\ UNCHANGED resp

\* A record that puts the newest report first.
record_front(list, report) == <<report>> \o list

\* Lines 330 and 336: corrected.append(...), verified.append(...)
record(list, report) == Append(list, report)

\* Lines 298-352: the rest of one iteration of the loop whose entry had the
\* outcome r, and the return after the last entry.  errors collects the
\* places in the list whose check ended in the except branch (line 343 prints
\* them); it is not part of the response body.
VerifyIter(t, r) ==
    LET e == loc[t].election_id
        corrected == IF r.kind = "corrected"
                     THEN record(loc[t].corrected, r.report)
                     ELSE loc[t].corrected
        verified == IF r.kind = "verified"
                    THEN record(loc[t].verified, r.report)
                    ELSE loc[t].verified
        errors == IF r.kind = "skip" /\ r.line = 344
                  THEN loc[t].errors \cup {loc[t].i}
                  ELSE loc[t].errors
    IN  /\ votes' = [votes EXCEPT ![e] = store_after(@, r)]
        /\ IF loc[t].i < Len(loc[t].votes)
           THEN /\ loc' = [loc EXCEPT ![t].i = @ + 1,
                                      ![t].corrected = corrected,
                                      ![t].verified = verified,
                                      ![t].errors = errors]
                /\ UNCHANGED <<pc, resp>>
           ELSE Return(t, [op |-> "verify", status |-> 200, election_id |-> e,
                           verified_count |-> Len(verified),
                           corrected_count |-> Len(corrected),
                           corrected |-> corrected,
                           verified |-> verified,
                           errors |-> errors,
                           previous |-> loc[t].previous])
        /\ UNCHANGED <<ledger, ncalls, nedits, admins, voters>>

\* One iteration of the loop with the ledger and the store answering.
VerifyStep(t) ==
    /\ pc[t] = "verify_loop"
    /\ VerifyIter(t, check_vote_entry(loc[t].votes[loc[t].i]))

\* What can go wrong while one entry is checked: the peer query fails
\* (returncode != 0, line 250), its output is cut short so that the pattern is
\* not found (line 232), update_one raises (line 320).
Faults == {"query_error", "bad_data", "update_error"}

\* The output of a peer query that was cut short.
Damaged(raw) == SubSeq(raw, 1, Len(raw) - 1)

\* The outcome of checking an entry while the fault happens; the fault can
\* happen only where the code makes the call that fails.
check_vote_entry_fault(vote, fault) ==
    IF vote.transaction_id = NoTxn THEN Skip(305)
    ELSE IF fault = "query_error" THEN Skip(344)
    ELSE IF fault = "bad_data"
    THEN IF Blocks(vote.transaction_id) = {} THEN Skip(344)
         ELSE LET raw == ledger[CHOOSE i \in Blocks(vote.transaction_id) : TRUE].data
                  k == extract_pattern_from_blockchain(Damaged(raw))
              IN  check_key(vote, IF k.raised \/ k.key = <<>> THEN NoKey ELSE k)
    ELSE IF check_vote_entry(vote).kind = "corrected" THEN Skip(344)
    ELSE check_vote_entry(vote)

\* A VerifyStepFault without the try/except of lines 307-344: the exception
\* leaves the handler.
VerifyStepFaultAborts(t, fault) ==
    /\ pc[t] = "verify_loop"
    /\ loc[t].votes[loc[t].i].transaction_id # NoTxn
    /\ fault = "update_error" =>
          check_vote_entry(loc[t].votes[loc[t].i]).kind = "corrected"
    /\ Return(t, VerifyError(500, "Internal Server Error", loc[t].election_id))
    /\ UNCHANGED <<votes, ledger, ncalls, nedits, admins, voters>>

\* One iteration of the loop during which a call made for the entry fails.
VerifyStepFault(t, fault) ==
    /\ pc[t] = "verify_loop"
    /\ LET vote == loc[t].votes[loc[t].i]
       IN  /\ vote.transaction_id # NoTxn
           /\ fault = "update_error" => check_vote_entry(vote).kind = "corrected"
           /\ VerifyIter(t, check_vote_entry_fault(vote, fault))

-----------------------------------------------------------------------------
(* Out-of-band edits of the vote store (a manual change of a stored entry). *)

\* The transaction ids the ledger has issued.
IssuedTxns == {ledger[i].transaction_id : i \in 1..Len(ledger)}

StoreEdit(e, j, field, value) ==
    /\ nedits < MaxEdits
    /\ j \in 1..Len(votes[e])
    /\ \/ field = "epic_id" /\ value \in EditEpics
       \/ field = "candidate" /\ value \in EditCandidates
       \/ field = "transaction_id" /\ value \in EditTxns \cup IssuedTxns
    /\ votes[e][j][field] # value
    /\ votes' = [votes EXCEPT ![e][j][field] = value]
    /\ nedits' = nedits + 1
    /\ resp' = [op |-> "edit"]
    /\ UNCHANGED <<ledger, pc, loc, ncalls, admins, voters>>

-----------------------------------------------------------------------------
(* District-admin approval (app/main.py).                                  *)

\* E-mail addresses a create request may carry (the collection has a unique
\* index on email).
Emails == {"a@x", "b@x"}

\* The _id of the k-th admin document is k; a request may also name an id
\* that does not parse as an ObjectId (-1 here).
BadAdminId == 0 - 1
AdminIds == {1, 2, BadAdminId}

\* The statuses a StatusUpdateRequest may carry (status: str).
RequestStatuses == {"approved", "rejected", "pending", "approve"}

AdminError(status, detail, admin_id, new_status) ==
    [op |-> "patch", status |-> status, detail |-> detail,
     admin_id |-> admin_id, new_status |-> new_status]

\* create_admin and add_district_admin: the document is inserted with status
\* "pending"; a duplicate e-mail raises DuplicateKeyError and the endpoint
\* answers 400.
CreateAdmin(t, email) ==
    /\ pc[t] = "idle"
    /\ ncalls < MaxCalls
    /\ ncalls' = ncalls + 1
    /\ IF \E k \in 1..Len(admins) : admins[k].email = email
       THEN /\ resp' = [op |-> "create_admin", status |-> 400, email |-> email,
                        detail |-> "Could not create user. Email may already exist."]
            /\ UNCHANGED admins
       ELSE LET doc == [_id |-> Len(admins) + 1, email |-> email,
                        status |-> "pending"]
            IN  /\ admins' = Append(admins, doc)
                /\ resp' = [op |-> "create_admin", status |-> 200,
                            email |-> email, admin |-> doc]
    /\ UNCHANGED <<votes, ledger, pc, loc, nedits, voters>>

NoAdmin == [_id |-> 0]

\* A find_one_and_update whose filter leaves out {"status": "pending"}.
find_one_and_update_any_status(docs, admin_id, new_status) ==
    IF \E k \in 1..Len(docs) : docs[k]._id = admin_id
    THEN LET k == CHOOSE m \in 1..Len(docs) : docs[m]._id = admin_id
             after == [docs EXCEPT ![k].status = new_status]
         IN  [admins |-> after, result |-> after[k]]
    ELSE [admins |-> docs, result |-> NoAdmin]

\* Lines 194-198: find_one_and_update({"_id": ..., "status": "pending"},
\* {"$set": {"status": new_status}}, return_document=True), one atomic
\* operation of the store: the collection after it and the document returned.
find_one_and_update(docs, admin_id, new_status) ==
    IF \E k \in 1..Len(docs) : docs[k]._id = admin_id /\ docs[k].status = "pending"
    THEN LET k == CHOOSE m \in 1..Len(docs) :
                      docs[m]._id = admin_id /\ docs[m].status = "pending"
             after == [docs EXCEPT ![k].status = new_status]
         IN  [admins |-> after, result |-> after[k]]
    ELSE [admins |-> docs, result |-> NoAdmin]

\* patch_status, update_admin_status lines 189-192: a status other than
\* 'approved' or 'rejected' raises ValueError before the store is touched.
PatchBegin(t, admin_id, new_status) ==
    /\ pc[t] = "idle"
    /\ ncalls < MaxCalls
    /\ ncalls' = ncalls + 1
    /\ UNCHANGED <<votes, ledger, nedits, admins, voters>>
    /\ IF new_status \notin {"approved", "rejected"}
       THEN Return(t, AdminError(400, "Status must be 'approved' or 'rejected'",
                                 admin_id, new_status))
       ELSE /\ pc' = [pc EXCEPT ![t] = "patch_update"]
            /\ loc' = [loc EXCEPT ![t] =
                          [admin_id |-> admin_id, new_status |-> new_status]]
            /\ UNCHANGED resp

\* Lines 194-201 and 428-435: ObjectId(admin_id) may raise InvalidId (400);
\* the update returns the changed document, or None (404).
PatchUpdate(t) ==
    /\ pc[t] = "patch_update"
    /\ UNCHANGED <<votes, ledger, ncalls, nedits, voters>>
    /\ IF loc[t].admin_id = BadAdminId
       THEN /\ Return(t, AdminError(400, "Invalid admin ID format.",
                                    loc[t].admin_id, loc[t].new_status))
            /\ UNCHANGED admins
       ELSE LET u == find_one_and_update(admins, loc[t].admin_id, loc[t].new_status)
            IN  /\ admins' = u.admins
                /\ IF u.result = NoAdmin
                   THEN Return(t, AdminError(404,
                                   "Admin not found or not in 'pending' state.",
                                   loc[t].admin_id, loc[t].new_status))
                   ELSE Return(t, [op |-> "patch", status |-> 200,
                                   admin_id |-> loc[t].admin_id,
                                   new_status |-> loc[t].new_status,
                                   admin |-> u.result])

-----------------------------------------------------------------------------
(* Voter enrolment (app/main.py).                                          *)

\* The EPIC ids and names an enroll request may carry, and its photo: the
\* face of one of two people, or a picture without a face.
EnrollEpics == {<<"v">>, <<"w">>}
Names == {"n1", "n2"}
NoFace == "none"
Photos == {"f1", "f2", NoFace}

EnrollError(status, detail, epic, name) ==
    [op |-> "enroll", status |-> status, detail |-> detail,
     epic |-> epic, name |-> name]

\* An insert_one that replaces the document with the same _id
\* (replace_one with upsert=True).
insert_one_replacing(docs, doc) ==
    [ok |-> TRUE, voters |-> {d \in docs : d._id # doc._id} \cup {doc}]

\* Lines 145-153: insert_one raises DuplicateKeyError when a document with the
\* _id (or, by the unique index of line 135, with the epic) exists; save_voter
\* then returns False.
insert_one(docs, doc) ==
    IF \E d \in docs : d._id = doc._id \/ d.epic = doc.epic
    THEN [ok |-> FALSE, voters |-> docs]
    ELSE [ok |-> TRUE, voters |-> docs \cup {doc}]

\* get_voter, lines 155-156, as a set (empty when find_one returns None).
get_voter(voter_id) == {d \in voters : d._id = voter_id}

\* Lines 286-300: the existence check, then the await of photo.read().
EnrollBegin(t, name, epic, photo) ==
    /\ pc[t] = "idle"
    /\ ncalls < MaxCalls
    /\ ncalls' = ncalls + 1
    /\ UNCHANGED <<votes, ledger, nedits, admins, voters>>
    /\ IF get_voter(epic) # {}
       THEN Return(t, EnrollError(400, "Voter with EPIC already exists.", epic, name))
       ELSE /\ pc' = [pc EXCEPT ![t] = "enroll_photo"]
            /\ loc' = [loc EXCEPT ![t] =
                          [epic |-> epic, name |-> name, photo |-> photo]]
            /\ UNCHANGED resp

\* Lines 302-312: no face in the photo, or a stored voter with a matching
\* face (verify_embeddings: the same person's face), ends the call with 400.
EnrollScan(t) ==
    /\ pc[t] = "enroll_photo"
    /\ UNCHANGED <<votes, ledger, ncalls, nedits, admins, voters>>
    /\ IF loc[t].photo = NoFace
       THEN Return(t, EnrollError(400, "No face detected in enrollment photo.",
                                  loc[t].epic, loc[t].name))
       ELSE IF \E d \in voters : d.face = loc[t].photo
       THEN Return(t, EnrollError(400, "Face already exists.",
                                  loc[t].epic, loc[t].name))
       ELSE /\ pc' = [pc EXCEPT ![t] = "enroll_save"]
            /\ UNCHANGED <<loc, resp>>

\* Lines 314-326: build the record and save it under _id = epic.
EnrollSave(t) ==
    /\ pc[t] = "enroll_save"
    /\ UNCHANGED <<votes, ledger, ncalls, nedits, admins>>
    /\ LET voter_record == [_id |-> loc[t].epic, epic |-> loc[t].epic,
                            name |-> loc[t].name, face |-> loc[t].photo]
           saved == insert_one(voters, voter_record)
       IN  /\ voters' = saved.voters
           /\ IF saved.ok
              THEN Return(t, [op |-> "enroll", status |-> 200,
                              epic |-> loc[t].epic, name |-> loc[t].name,
                              detail |-> "Enrolled successfully."])
              ELSE Return(t, EnrollError(500, "Failed to save voter.",
                                         loc[t].epic, loc[t].name))

-----------------------------------------------------------------------------
(* Specifications.                                                         *)

CastStep(t) ==
    \/ CastLedgerOk(t)
    \/ CastLedgerFail(t)
    \/ CastPush(t)
    \/ CastPushFail(t)

\* The thread that serves the calls when they do not overlap.
SeqThread == CHOOSE t \in Threads : TRUE

\* cast_vote calls, each one finishing before the next starts.
NextCastSeq ==
    \/ \E e \in ElectionIds, epic \in EpicIds, cand \in RequestCandidates :
           CastBegin(SeqThread, e, epic, cand)
    \/ CastStep(SeqThread)

SpecCastSeq == Init /\ [][NextCastSeq]_vars

\* cast_vote calls whose steps interleave.
NextCast ==
    \E t \in Threads :
        \/ \E e \in ElectionIds, epic \in EpicIds, cand \in RequestCandidates :
               CastBegin(t, e, epic, cand)
        \/ CastStep(t)

SpecCast == Init /\ [][NextCast]_vars

\* cast_vote and verify_election_integrity calls, one at a time, with no
\* out-of-band edit.
NextVerifySeq ==
    \/ \E e \in Elections, epic \in EpicIds, cand \in RequestCandidates :
           CastBegin(SeqThread, e, epic, cand)
    \/ CastStep(SeqThread)
    \/ \E e \in VerifyElectionIds : VerifyBegin(SeqThread, e)
    \/ VerifyStep(SeqThread)

SpecVerifySeq == Init /\ [][NextVerifySeq]_vars

\* Calls one at a time with out-of-band edits between them, while the ledger
\* and the store answer every call; the requests name existing elections and
\* their declared candidates.
NextEditSeq ==
    \/ \E e \in Elections, epic \in EpicIds :
           \E cand \in CandidateNames(e) : CastBegin(SeqThread, e, epic, cand)
    \/ CastLedgerOk(SeqThread)
    \/ CastPush(SeqThread)
    \/ \E e \in Elections : VerifyBegin(SeqThread, e)
    \/ VerifyStep(SeqThread)
    \/ /\ pc[SeqThread] = "idle"
       /\ \E e \in Elections, j \in 1..MaxCalls, field \in {"epic_id", "candidate"},
             value \in EditEpics \cup EditCandidates :
              StoreEdit(e, j, field, value)

SpecEditSeq == Init /\ [][NextEditSeq]_vars

\* cast_vote calls for existing elections, one at a time.
NextCastKnownSeq ==
    \/ \E e \in Elections, epic \in EpicIds, cand \in RequestCandidates :
           CastBegin(SeqThread, e, epic, cand)
    \/ CastStep(SeqThread)

\* cast_vote and get_results calls, one at a time.
NextTallySeq ==
    \/ NextCastKnownSeq
    \/ \E e \in ElectionIds : GetResults(SeqThread, e)

SpecTallySeq == Init /\ [][NextTallySeq]_vars

\* cast_vote and check_vote calls for existing elections, one at a time.
NextCheckSeq ==
    \/ NextCastKnownSeq
    \/ \E e \in Elections, epic \in EpicIds : CheckVote(SeqThread, e, epic)

SpecCheckSeq == Init /\ [][NextCheckSeq]_vars

\* The calls on one election, one at a time: casts that may stop after the
\* ledger append, reconciles and check_vote.
NextOrphanSeq ==
    \/ \E epic \in EpicIds, cand \in CandidateNames("E1") :
           CastBegin(SeqThread, "E1", epic, cand)
    \/ CastStep(SeqThread)
    \/ VerifyBegin(SeqThread, "E1")
    \/ VerifyStep(SeqThread)
    \/ \E epic \in EpicIds : CheckVote(SeqThread, "E1", epic)

SpecOrphanSeq == Init /\ [][NextOrphanSeq]_vars

\* cast_vote calls over the hash-chained ledger, their steps interleaving.
NextChain ==
    \E t \in Threads :
        \/ \E e \in Elections, epic \in EpicIds :
               \E cand \in CandidateNames(e) : CastBegin(t, e, epic, cand)
        \/ AppendRead(t)
        \/ AppendWrite(t)
        \/ CastPush(t)

SpecChain == Init /\ [][NextChain]_vars

\* The four operations on one election, with the steps of two calls
\* interleaving.
NextCore ==
    \E t \in Threads :
        \/ \E epic \in EpicIds, cand \in CandidateNames("E1") :
               CastBegin(t, "E1", epic, cand)
        \/ CastStep(t)
        \/ VerifyBegin(t, "E1")
        \/ VerifyStep(t)
        \/ \E epic \in EpicIds : CheckVote(t, "E1", epic)
        \/ GetResults(t, "E1")

SpecCore == Init /\ [][NextCore]_vars

\* Calls one at a time, with entries that lose their transaction id between
\* the calls and with calls that fail while reconcile checks an entry.
NextFaultSeq ==
    \/ \E e \in Elections, epic \in EpicIds :
           \E cand \in CandidateNames(e) : CastBegin(SeqThread, e, epic, cand)
    \/ CastLedgerOk(SeqThread)
    \/ CastPush(SeqThread)
    \/ \E e \in Elections : VerifyBegin(SeqThread, e)
    \/ VerifyStep(SeqThread)
    \/ \E fault \in Faults : VerifyStepFault(SeqThread, fault)
    \/ /\ pc[SeqThread] = "idle"
       /\ \E e \in Elections, j \in 1..MaxCalls, value \in EditTxns :
              StoreEdit(e, j, "transaction_id", value)

SpecFaultSeq == Init /\ [][NextFaultSeq]_vars

\* Casts of several voters with plain ids among them, and reconciles, one call
\* at a time.
NextOrderSeq ==
    \/ \E e \in Elections, epic \in EpicIds \cup EditEpics :
           \E cand \in CandidateNames(e) : CastBegin(SeqThread, e, epic, cand)
    \/ CastLedgerOk(SeqThread)
    \/ CastPush(SeqThread)
    \/ \E e \in Elections : VerifyBegin(SeqThread, e)
    \/ VerifyStep(SeqThread)

SpecOrderSeq == Init /\ [][NextOrderSeq]_vars

\* Calls one at a time, with entries that are given the transaction id of
\* another vote between the calls.
NextBindSeq ==
    \/ \E e \in Elections, epic \in EpicIds :
           \E cand \in CandidateNames(e) : CastBegin(SeqThread, e, epic, cand)
    \/ CastLedgerOk(SeqThread)
    \/ CastPush(SeqThread)
    \/ \E e \in Elections : VerifyBegin(SeqThread, e)
    \/ VerifyStep(SeqThread)
    \/ /\ pc[SeqThread] = "idle"
       /\ \E e \in Elections, j \in 1..MaxCalls, value \in 1..MaxCalls :
              StoreEdit(e, j, "transaction_id", value)

SpecBindSeq == Init /\ [][NextBindSeq]_vars

\* Casts and reconciles on one election with the steps of two calls
\* interleaving, and out-of-band edits while no call is running.
NextRace ==
    \/ \E t \in Threads :
           \/ \E epic \in EpicIds, cand \in CandidateNames("E1") :
                  CastBegin(t, "E1", epic, cand)
           \/ CastLedgerOk(t)
           \/ CastPush(t)
           \/ VerifyBegin(t, "E1")
           \/ VerifyStep(t)
    \/ /\ \A t \in Threads : pc[t] = "idle"
       /\ \E j \in 1..MaxCalls, field \in {"epic_id", "candidate"},
             value \in EditEpics \cup EditCandidates :
              StoreEdit("E1", j, field, value)

SpecRace == Init /\ [][NextRace]_vars

\* The district-admin requests, with the steps of two calls interleaving.
NextAdmin ==
    \E t \in Threads :
        \/ \E email \in Emails : CreateAdmin(t, email)
        \/ \E admin_id \in AdminIds, new_status \in RequestStatuses :
               PatchBegin(t, admin_id, new_status)
        \/ PatchUpdate(t)

SpecAdmin == Init /\ [][NextAdmin]_vars

\* enroll calls, with the steps of two calls interleaving.
NextEnroll ==
    \E t \in Threads :
        \/ \E name \in Names, epic \in EnrollEpics, photo \in Photos :
               EnrollBegin(t, name, epic, photo)
        \/ EnrollScan(t)
        \/ EnrollSave(t)

SpecEnroll == Init /\ [][NextEnroll]_vars

-----------------------------------------------------------------------------
(* Steps and states the properties speak about.                            *)

\* The entries of election e that carry EPIC id epic.
EntriesOf(e, epic) == {j \in 1..Len(votes[e]) : votes[e][j].epic_id = epic}

\* A cast of thread t passes its validations in this step.
Accepted(t) == pc[t] = "idle" /\ pc'[t] = "cast_ledger"

\* A call begins and returns in this step (resp' is its response).
Rejected == ncalls' # ncalls /\ pc' = pc

\* The candidate of a response is declared in the response's election.
Declared(r) ==
    r.election_id \in Elections /\ r.candidate_name \in CandidateNames(r.election_id)

\* The ledger command of thread t's cast fails in this step.
LedgerFailed(t) ==
    pc[t] = "cast_ledger" /\ pc'[t] # "cast_ledger" /\ ledger' = ledger

\* The cast of thread t ends with a server error in this step.
ServerError(t) ==
    pc[t] # "idle" /\ pc'[t] = "idle" /\ resp'.op = "cast" /\ resp'.status = 500

-----------------------------------------------------------------------------
(* cast_vote: C1 - C5                                                      *)

C1_OneEntryPerEpic ==
    \A e \in Elections : \A i, j \in 1..Len(votes[e]) :
        votes[e][i].epic_id = votes[e][j].epic_id => i = j

C1_DuplicateRejected ==
    /\ \A t \in Threads :
          Accepted(t) => EntriesOf(loc'[t].election_id, loc'[t].epic_id) = {}
    /\ (Rejected /\ resp'.op = "cast" /\ Declared(resp')
          /\ EntriesOf(resp'.election_id, resp'.epic_id) # {})
       => /\ resp'.detail = "Voter has already voted."
          /\ UNCHANGED <<votes, ledger>>

\* C1: with cast_vote calls that do not overlap and no out-of-band edit, every
\* election's vote list holds at most one entry per epic_id; a cast by an
\* epic_id that has an entry in the election is rejected as "Voter has already
\* voted." and adds nothing, and never goes on to the ledger.
C1_NonOverlappingCasts == []C1_OneEntryPerEpic /\ [][C1_DuplicateRejected]_vars

\* A duplicate was rejected for a voter who has voted in both elections.
C1_Witness ==
    /\ resp.op = "cast"
    /\ resp.detail = "Voter has already voted."
    /\ \A e \in Elections : EntriesOf(e, resp.epic_id) # {}

\* C2: at most one entry per epic_id exists in every election also when the
\* steps of two cast_vote calls for the same election and epic_id interleave.
C2_OneEntryPerEpicInterleaved ==
    \A e \in Elections, epic \in EpicIds : Cardinality(EntriesOf(e, epic)) <= 1

C3_ValidationShortCircuits ==
    /\ \A t \in Threads :
          Accepted(t) =>
             /\ loc'[t].election_id \in Elections
             /\ loc'[t].candidate_name \in CandidateNames(loc'[t].election_id)
             /\ EntriesOf(loc'[t].election_id, loc'[t].epic_id) = {}
    /\ (Rejected /\ resp'.op = "cast") =>
          /\ UNCHANGED <<votes, ledger>>
          /\ resp'.election_id = UnknownElection =>
                resp'.status = 404 /\ resp'.detail = "Election not found."
          /\ (resp'.election_id \in Elections /\ ~Declared(resp')) =>
                resp'.status = 404 /\ resp'.detail = "Candidate not found in election."
          /\ Declared(resp') =>
                /\ resp'.detail = "Voter has already voted."
                /\ EntriesOf(resp'.election_id, resp'.epic_id) # {}

\* C3: a cast that fails a validation (unknown election, undeclared candidate,
\* voter already has an entry) returns the matching failure and leaves the
\* ledger and every vote list as they were; no such cast reaches the ledger.
C3_FailedValidationChangesNothing == [][C3_ValidationShortCircuits]_vars

\* An undeclared candidate was refused while the ledger and the store already
\* held a vote.
C3_Witness ==
    /\ resp.op = "cast"
    /\ resp.detail = "Candidate not found in election."
    /\ ledger # <<>>
    /\ \E e \in Elections : votes[e] # <<>>

C4_EntriesHaveLedgerTxn ==
    \A e \in Elections : \A j \in 1..Len(votes[e]) :
        /\ votes[e][j].transaction_id # NoTxn
        /\ Blocks(votes[e][j].transaction_id) # {}

C4_FailedAppendStops ==
    \A t \in Threads :
        LedgerFailed(t) =>
            /\ pc'[t] = "idle"
            /\ resp'.op = "cast" /\ resp'.status = 500
            /\ votes' = votes

\* C4: when the ledger append of a cast fails the cast ends with a server error
\* and its push never runs, and every entry of every vote list carries a
\* transaction id that the ledger issued.
C4_NoEntryWithoutLedgerTxn ==
    []C4_EntriesHaveLedgerTxn /\ [][C4_FailedAppendStops]_vars

\* A ledger append failed after another cast had succeeded.
C4_Witness ==
    /\ resp.op = "cast" /\ resp.status = 500
    /\ resp.detail = "Blockchain error"
    /\ EntriesOf(resp.election_id, resp.epic_id) = {}
    /\ \E e \in Elections : votes[e] # <<>>

C5_NoPartialState ==
    \A t \in Threads :
        ServerError(t) => Blocks(loc[t].txn_id) = {} /\ votes' = votes

C5_OneBlockPerVote ==
    (resp.op = "cast" /\ resp.status = 200) =>
        Cardinality({i \in 1..Len(ledger) :
                        ledger[i].data = vote_key(resp.epic_id, resp.candidate)})
        = Cardinality({e \in Elections :
                          \E j \in EntriesOf(e, resp.epic_id) :
                              votes[e][j].candidate = resp.candidate})

\* C5: when cast_vote ends with a server error the ledger holds no block of
\* that attempt and no entry was added, so that after a successful retry the
\* ledger holds exactly one block for the voter's vote in the election.
C5_ServerErrorLeavesNothing == [][C5_NoPartialState]_vars /\ []C5_OneBlockPerVote

-----------------------------------------------------------------------------
(* verify_election_integrity: C6 - C10                                     *)

\* The (epic_id, candidate) a ledger block was written from.
LedgerPair(txn) ==
    CHOOSE w \in EpicIds \X RequestCandidates :
        \E i \in Blocks(txn) : ledger[i].data = vote_key(w[1], w[2])

\* The entry equals the record the ledger holds for it, surrounding
\* whitespace aside.
Matches(v) ==
    /\ strip(v.epic_id) = strip(LedgerPair(v.transaction_id)[1])
    /\ strip(v.candidate) = strip(LedgerPair(v.transaction_id)[2])

\* The ledger has a record for the entry and the entry differs from it.
Differs(v) == Blocks(v.transaction_id) # {} /\ ~Matches(v)

\* The loop of thread t's verify call handles an entry in this step.
Checks(t) == pc[t] = "verify_loop"

\* Thread t's verify call returns in this step.
Completes(t) == pc[t] = "verify_loop" /\ pc'[t] = "idle"

\* The lists of thread t's verify call after this step.
VerifiedAfter(t) == IF pc'[t] = "idle" THEN resp'.verified ELSE loc'[t].verified
CorrectedAfter(t) == IF pc'[t] = "idle" THEN resp'.corrected ELSE loc'[t].corrected

Range(seq) == {seq[k] : k \in 1..Len(seq)}

\* C6: with cast_vote and verify_election_integrity alone, every entry carries
\* a transaction id whose ledger record holds the entry's epic_id and
\* candidate (surrounding whitespace aside), and a successful cast returns the
\* candidate and the transaction id of such a record.
C6_EntryMatchesItsLedgerRecord ==
    /\ \A e \in Elections : \A j \in 1..Len(votes[e]) :
          Blocks(votes[e][j].transaction_id) # {} /\ Matches(votes[e][j])
    /\ (resp.op = "cast" /\ resp.status = 200) =>
          \E i \in Blocks(resp.transaction_id) :
              ledger[i].data = vote_key(resp.epic_id, resp.candidate)

\* What C7 expects in corrected: the entries that differed, in scan order.
ExpectedCorrected(before) ==
    LET d == SelectSeq(before, Differs)
    IN  [k \in 1..Len(d) |->
            [transaction_id |-> d[k].transaction_id,
             old |-> d[k].epic_id \o dash \o d[k].candidate,
             new |-> LedgerPair(d[k].transaction_id)[1] \o dash
                        \o LedgerPair(d[k].transaction_id)[2]]]

C7_LedgerWins ==
    \A t \in Threads :
        Completes(t) =>
            LET e == loc[t].election_id
            IN  /\ \A j \in 1..Len(votes'[e]) :
                      ~Differs(votes'[e][j])
                /\ resp'.corrected = ExpectedCorrected(loc[t].votes)

\* C7: when verify_election_integrity(e) completes, every entry of e whose
\* transaction id has a ledger record equals that record (surrounding
\* whitespace aside), and corrected lists exactly the entries that differed,
\* each once, with its transaction id, its key before the correction and the
\* ledger's key.
C7_ReconcileRestoresLedgerValues == [][C7_LedgerWins]_vars

C8_SecondRunIsClean ==
    \A t \in Threads :
        (Checks(t) /\ loc[t].previous # {}) =>
            /\ votes' = votes
            /\ Completes(t) => resp'.corrected_count = 0

\* C8: a verify_election_integrity(e) that directly follows another one, with
\* no cast or edit between them, reports corrected_count = 0 and does not
\* change the vote store.
C8_ReconcileIdempotent == [][C8_SecondRunIsClean]_vars

C9_SameVerified ==
    \A t \in Threads :
        (Completes(t) /\ loc[t].previous # {}) =>
            \A p \in loc[t].previous : Range(resp'.verified) = Range(p.verified)

\* C9 as stated: the second of two successive runs reports the same verified
\* set as the first.
C9_SecondRunSameVerifiedSet == [][C9_SameVerified]_vars

C9_VerifiedKept ==
    \A t \in Threads :
        (Completes(t) /\ loc[t].previous # {}) =>
            \A p \in loc[t].previous :
                /\ Range(p.verified) \subseteq Range(resp'.verified)
                /\ p.corrected = <<>> => resp'.verified = p.verified

\* C9 amended: the second of two successive runs reports every entry the first
\* run verified, with the same values, and the same verified list when the
\* first run corrected nothing.
C9_SecondRunKeepsVerified == [][C9_VerifiedKept]_vars

\* A second run has returned after a first run that verified an entry.
C9_Witness ==
    /\ resp.op = "verify" /\ resp.status = 200
    /\ "verified" \in DOMAIN resp
    /\ \E p \in resp.previous : p.verified # <<>>

C10_TrimmedEquality ==
    \A t \in Threads :
        Checks(t) =>
            LET v == loc[t].votes[loc[t].i]
                k == query_blockchain_transaction(v.transaction_id)
            IN  (v.transaction_id # NoTxn /\ ~k.raised /\ contains(k.key, dash)) =>
                    LET parts == split1(k.key, dash)
                        same == /\ strip(v.epic_id) = strip(parts[1])
                                /\ strip(v.candidate) = strip(parts[2])
                    IN  /\ (Len(VerifiedAfter(t)) > Len(loc[t].verified)) <=> same
                        /\ same => /\ CorrectedAfter(t) = loc[t].corrected
                                   /\ votes' = votes

\* C10: reconcile reports an entry as verified, and does not write it, exactly
\* when its epic_id and candidate equal the ones read from the ledger after
\* trimming; a difference in surrounding whitespace alone is never corrected.
C10_VerifiedIffEqualAfterTrim == [][C10_TrimmedEquality]_vars

-----------------------------------------------------------------------------
(* verify_election_integrity: C11 - C13, C19                               *)

\* The entry cannot be checked against the ledger.
Unverifiable(v) == v.transaction_id = NoTxn \/ Blocks(v.transaction_id) = {}

C11_SkipsUnverifiable ==
    \A t \in Threads :
        Checks(t) =>
            LET e == loc[t].election_id
                v == loc[t].votes[loc[t].i]
            IN  /\ Unverifiable(v) =>
                      /\ VerifiedAfter(t) = loc[t].verified
                      /\ CorrectedAfter(t) = loc[t].corrected
                      /\ votes' = votes
                /\ Completes(t) =>
                      /\ \A r \in Range(resp'.verified) \cup Range(resp'.corrected) :
                            r.transaction_id # NoTxn /\ Blocks(r.transaction_id) # {}
                      /\ resp'.verified_count + resp'.corrected_count
                            <= Cardinality({j \in 1..Len(loc[t].votes) :
                                               ~Unverifiable(loc[t].votes[j])})
                      /\ \A j \in 1..Len(loc[t].votes) :
                            Unverifiable(loc[t].votes[j]) =>
                                votes'[e][j] = loc[t].votes[j]

\* C11: reconcile leaves an entry without a transaction id, or with one that
\* has no ledger record, out of verified and corrected and out of both
\* counts, and does not change it in the store.
C11_UnverifiableLeftAlone == [][C11_SkipsUnverifiable]_vars

\* A reconcile has returned for an election that holds an entry whose
\* transaction id is unknown to the ledger, next to one it could check.
C11_Witness ==
    /\ resp.op = "verify" /\ resp.status = 200 /\ "verified" \in DOMAIN resp
    /\ Len(votes[resp.election_id]) = 2
    /\ \E j \in 1..2 : votes[resp.election_id][j].transaction_id = UnknownTxn
    /\ resp.verified_count + resp.corrected_count = 1

\* vs without the entries at the places in drop.
RECURSIVE Without(_, _)
Without(vs, drop) ==
    IF vs = <<>> THEN <<>>
    ELSE LET n == Len(vs)
             rest == Without(SubSeq(vs, 1, n - 1), drop)
         IN  IF n \in drop THEN rest ELSE Append(rest, vs[n])

\* The reports of the given kind that a scan of vs with no failing call makes.
Reports(vs, kind) ==
    LET sel == SelectSeq(vs, LAMBDA v : check_vote_entry(v).kind = kind)
    IN  [k \in 1..Len(sel) |-> check_vote_entry(sel[k]).report]

C12_ScanGoesOn ==
    \A t \in Threads :
        Checks(t) =>
            /\ \/ /\ pc'[t] = "verify_loop"
                  /\ loc'[t].i = loc[t].i + 1
                  /\ loc'[t].votes = loc[t].votes
               \/ /\ Completes(t)
                  /\ loc[t].i = Len(loc[t].votes)
                  /\ resp'.op = "verify" /\ resp'.status = 200
            /\ Completes(t) =>
                  LET others == Without(loc[t].votes, resp'.errors)
                  IN  /\ resp'.verified = Reports(others, "verified")
                      /\ resp'.corrected = Reports(others, "corrected")

\* C12: a call that fails while one entry is checked does not end reconcile:
\* the loop goes on to the next entry and the call returns its result, whose
\* lists are the ones a scan of the vote list without the failing entries
\* makes.
C12_FailureDoesNotAbort == [][C12_ScanGoesOn]_vars

\* A reconcile has returned after a call failed for its first entry, whose
\* transaction id the ledger knows, and it classified a later entry.
C12_Witness ==
    /\ resp.op = "verify" /\ resp.status = 200 /\ "errors" \in DOMAIN resp
    /\ resp.errors = {1}
    /\ Blocks(votes[resp.election_id][1].transaction_id) # {}
    /\ resp.verified_count + resp.corrected_count >= 1

\* The report r of the verified list, or of the corrected list, is about entry v.
VerifiedReportOf(r, v) ==
    /\ r.transaction_id = v.transaction_id
    /\ r.epic_id = v.epic_id
    /\ r.candidate = v.candidate

CorrectedReportOf(r, v) ==
    /\ r.transaction_id = v.transaction_id
    /\ r.old = v.epic_id \o dash \o v.candidate

\* The reports are about entries of vs that follow one another in vs.
InScanOrder(reports, vs, ReportOf(_, _)) ==
    \E f \in [1..Len(reports) -> 1..Len(vs)] :
        /\ \A k, l \in 1..Len(reports) : k < l => f[k] < f[l]
        /\ \A k \in 1..Len(reports) : ReportOf(reports[k], vs[f[k]])

C13_ScanOrder ==
    \A t \in Threads :
        Completes(t) =>
            /\ InScanOrder(resp'.verified, loc[t].votes, VerifiedReportOf)
            /\ InScanOrder(resp'.corrected, loc[t].votes, CorrectedReportOf)

\* C13: the verified list and the corrected list of a reconcile name entries
\* of the vote list in the order in which they stand in the vote list.
C13_ListsKeepScanOrder == [][C13_ScanOrder]_vars

\* A reconcile has returned two verified entries, the earlier cast first.
C13_Witness ==
    /\ resp.op = "verify" /\ resp.status = 200 /\ "verified" \in DOMAIN resp
    /\ Len(resp.verified) = 2
    /\ resp.verified[1].transaction_id < resp.verified[2].transaction_id

\* C19: every result of verify_election_integrity on an existing election
\* carries verified_count, corrected_count, verified and corrected, the counts
\* are the lengths of the lists, no entry is in both lists and the lists hold
\* no more reports than the vote list has entries; for an election without
\* votes the counts are 0 and the lists are empty.
C19_ResultHasCountsAndLists ==
    (resp.op = "verify" /\ resp.status = 200) =>
        /\ {"verified_count", "corrected_count", "verified", "corrected"}
              \subseteq DOMAIN resp
        /\ resp.verified_count = Len(resp.verified)
        /\ resp.corrected_count = Len(resp.corrected)
        /\ \A r \in Range(resp.verified), c \in Range(resp.corrected) :
              r.transaction_id # c.transaction_id
        /\ Len(resp.verified) + Len(resp.corrected) <= Len(votes[resp.election_id])

-----------------------------------------------------------------------------
(* get_results and check_vote: C14, C18                                    *)

\* The number of entries of election e that name candidate c.
CountOf(e, c) == Cardinality({j \in 1..Len(votes[e]) : votes[e][j].candidate = c})

RECURSIVE SumCounts(_)
SumCounts(results) ==
    IF results = <<>> THEN 0 ELSE Head(results).count + SumCounts(Tail(results))

\* The last call was get_results(e), and nothing happened after it.
C14_GroupCount ==
    (resp.op = "results" /\ resp.status = 200 /\ resp.election_id \in Elections) =>
        LET e == resp.election_id
            r == resp.results
        IN  /\ \A k, l \in 1..Len(r) : r[k]._id = r[l]._id => k = l
            /\ \A k \in 1..Len(r) :
                  r[k].count > 0 /\ r[k].count = CountOf(e, r[k]._id)
            /\ \A j \in 1..Len(votes[e]) :
                  \E k \in 1..Len(r) : r[k]._id = votes[e][j].candidate
            /\ SumCounts(r) = Len(votes[e])

\* Thread t's cast returns success for election e in this step.
CastSucceeds(t, e) ==
    /\ pc[t] = "cast_push" /\ pc'[t] = "idle"
    /\ resp'.op = "cast" /\ resp'.status = 200 /\ resp'.election_id = e

C14_EntryPerSuccess ==
    \A e \in Elections :
        Len(votes'[e]) =
            Len(votes[e]) + Cardinality({t \in Threads : CastSucceeds(t, e)})

\* C14: get_results(e) reports for each candidate the number of entries of e
\* that name it and no candidate without an entry, the counts sum to the
\* number of entries of e, and every vote list grows by one entry exactly when
\* a cast for its election succeeds, whatever the ledger holds.
C14_TallyCountsTheStore == []C14_GroupCount /\ [][C14_EntryPerSuccess]_vars

\* A tally was returned while the ledger holds a block more than the
\* election has entries.
C14_Witness ==
    /\ resp.op = "results" /\ resp.status = 200
    /\ resp.election_id \in Elections
    /\ Len(resp.results) = 1
    /\ resp.results[1].count = 1
    /\ Len(ledger) = 2
    /\ \A e \in Elections \ {resp.election_id} : votes[e] = <<>>

\* The voter is enrolled and one of their constituencies is the election's.
Eligible(e, epic) ==
    /\ epic \in Enrolled
    /\ Constituency(e) \in {voter_collection(epic).karnatakaConstituencies,
                             voter_collection(epic).parliamentaryConstituencies}

\* The last call was check_vote, and nothing happened after it.
C18_ReportsTheStore ==
    (resp.op = "check" /\ resp.election_id \in Elections
        /\ Eligible(resp.election_id, resp.epic_id)) =>
        /\ resp.status = 200
        /\ resp.result \in {"already_voted", "not_voted"}
        /\ resp.result = "already_voted"
              <=> EntriesOf(resp.election_id, resp.epic_id) # {}

C18_AgreesWithCast ==
    /\ (resp' # resp /\ resp'.op = "check") => UNCHANGED <<votes, ledger>>
    /\ (resp.op = "check" /\ resp.status = 200) =>
          /\ \A t \in Threads :
                (Accepted(t) /\ loc'[t].election_id = resp.election_id
                    /\ loc'[t].epic_id = resp.epic_id)
                => resp.result = "not_voted"
          /\ (Rejected /\ resp'.op = "cast" /\ Declared(resp')
                /\ resp'.election_id = resp.election_id
                /\ resp'.epic_id = resp.epic_id)
             => /\ resp.result = "already_voted"
                /\ resp'.detail = "Voter has already voted."

\* C18: for an existing election and an eligible voter check_vote reports
\* already_voted exactly when the vote list holds an entry with the epic_id,
\* it changes neither the store nor the ledger, and the cast for a declared
\* candidate that follows it is accepted exactly when it reported not_voted.
C18_CheckAgreesWithCast == []C18_ReportsTheStore /\ [][C18_AgreesWithCast]_vars

\* A cast was accepted right after check_vote reported not_voted for its
\* voter, in an election that already holds another voter's entry.
C18_Witness ==
    /\ resp.op = "check" /\ resp.status = 200 /\ resp.result = "not_voted"
    /\ \E t \in Threads :
          /\ pc[t] = "cast_ledger"
          /\ loc[t].election_id = resp.election_id
          /\ loc[t].epic_id = resp.epic_id
    /\ votes[resp.election_id] # <<>>

-----------------------------------------------------------------------------
(* A cast that stops between the ledger append and the push: C15           *)

\* The ledger blocks whose transaction id no entry carries.
Orphans ==
    {i \in 1..Len(ledger) :
        \A e \in Elections : \A j \in 1..Len(votes[e]) :
            votes[e][j].transaction_id # ledger[i].transaction_id}

\* A block without entry holds a vote of the voter.
HasOrphan(epic) ==
    \E i \in Orphans : \E c \in RequestCandidates : ledger[i].data = vote_key(epic, c)

\* Thread t's cast stops after its ledger append in this step.
StopsBeforePush(t) ==
    pc[t] = "cast_push" /\ pc'[t] = "idle" /\ votes' = votes

C15_OrphanStays ==
    /\ \A t \in Threads :
          StopsBeforePush(t) =>
              \E i \in 1..Len(ledger') :
                  /\ ledger'[i].transaction_id = loc[t].txn_id
                  /\ ledger'[i].data = vote_key(loc[t].epic_id, loc[t].candidate_name)
                  /\ \A e \in Elections : \A j \in 1..Len(votes'[e]) :
                        votes'[e][j].transaction_id # loc[t].txn_id
    /\ \A t \in Threads :
          Checks(t) =>
              /\ \A i \in Orphans :
                    /\ \A e \in Elections : \A j \in 1..Len(votes'[e]) :
                          votes'[e][j].transaction_id # ledger[i].transaction_id
                    /\ \A r \in Range(VerifiedAfter(t)) \cup Range(CorrectedAfter(t)) :
                          r.transaction_id # ledger[i].transaction_id
              /\ \A epic \in EpicIds :
                    (HasOrphan(epic) /\ EntriesOf(loc[t].election_id, epic) = {})
                    => \A j \in 1..Len(votes'[loc[t].election_id]) :
                          votes'[loc[t].election_id][j].epic_id # epic
    /\ (resp' # resp /\ resp'.op = "check" /\ resp'.status = 200
          /\ HasOrphan(resp'.epic_id)
          /\ EntriesOf(resp'.election_id, resp'.epic_id) = {})
       => resp'.result = "not_voted"
    /\ (Rejected /\ resp'.op = "cast" /\ Declared(resp')
          /\ HasOrphan(resp'.epic_id))
       => EntriesOf(resp'.election_id, resp'.epic_id) # {}
    /\ \A t \in Threads :
          (pc[t] = "cast_ledger" /\ pc'[t] = "cast_push") =>
              Len(ledger') = Len(ledger) + 1

\* C15: a cast that stops after its ledger append leaves a block that no
\* entry carries; no reconcile reports that block or gives it an entry, a
\* reconcile leaves its voter without entry, check_vote reports that voter as
\* not_voted, and a new cast of that voter is accepted and appends a block.
C15_OrphanBlockIsNeverRepaired == [][C15_OrphanStays]_vars

-----------------------------------------------------------------------------
(* The four operations together: C17, C20                                  *)

\* Thread t's cast appends its block in this step.
Appends(t) ==
    /\ pc[t] = "cast_ledger" /\ pc'[t] = "cast_push"
    /\ loc[t].election_id \in Elections
    /\ loc[t].candidate_name \in CandidateNames(loc[t].election_id)
    /\ Len(ledger') = Len(ledger) + 1
    /\ SubSeq(ledger', 1, Len(ledger)) = ledger
    /\ ledger'[Len(ledger')].data = vote_key(loc[t].epic_id, loc[t].candidate_name)
    /\ ledger'[Len(ledger')].transaction_id = loc'[t].txn_id
    /\ \A u \in Threads \ {t} : pc'[u] = pc[u]

C17_OnlyCastsAppend ==
    /\ ledger' = ledger \/ \E t \in Threads : Appends(t)
    /\ \A t \in Threads :
          (pc[t] \in {"idle", "cast_push", "verify_loop"}
              /\ (pc'[t] # pc[t] \/ loc'[t] # loc[t]))
          => ledger' = ledger
    /\ resp' # resp => ledger' = ledger

\* C17: no step of cast_vote, check_vote, get_results or
\* verify_election_integrity changes or removes a ledger record; the ledger
\* changes only by the one append of a cast that passed its validations, and
\* every step of a reconcile and every returning call leaves it as it is.
C17_LedgerIsAppendOnly == [][C17_OnlyCastsAppend]_vars

\* A reconcile has corrected entries while a cast stopped after its append:
\* the ledger still holds every block, one of them without entry.
C17_Witness ==
    /\ resp.op = "verify" /\ resp.status = 200 /\ "corrected" \in DOMAIN resp
    /\ resp.corrected # <<>>
    /\ Len(ledger) = 2
    /\ Len(votes[resp.election_id]) = 1

\* A call reads the vote store in this step: check_vote, get_results, or the
\* find_one of verify_election_integrity.
Reads(t) ==
    /\ pc[t] = "idle"
    /\ \/ pc'[t] = "verify_loop"
       \/ pc'[t] = "idle" /\ resp' # resp /\ resp'.op \in {"check", "results", "verify"}

\* C20: no check_vote, get_results or verify_election_integrity reads the
\* store while a cast has appended its ledger block and not yet pushed its
\* entry.
C20_NoPartialCommitVisible ==
    [][\A t \in Threads : Reads(t) => \A u \in Threads : pc[u] # "cast_push"]_vars

-----------------------------------------------------------------------------
(* The hash chain: C16                                                     *)

\* C16: the ledger is one chain over all elections: the first block has the
\* genesis sentinel as previous_hash, every other block has the current_hash
\* of the block inserted right before it, every current_hash is the digest of
\* the block's payload and previous_hash, and no two blocks have the same
\* previous_hash, with the appends of two casts under way at the same time.
C16_OneGlobalChain ==
    /\ ledger # <<>> => ledger[1].previous_hash = Genesis
    /\ \A i \in 2..Len(ledger) : ledger[i].previous_hash = ledger[i - 1].current_hash
    /\ \A i \in 1..Len(ledger) :
          ledger[i].current_hash =
              digest(payload(ledger[i].epic_id, ledger[i].candidate,
                             ledger[i].election_id, ledger[i].transaction_id),
                     ledger[i].previous_hash)
    /\ \A i, j \in 1..Len(ledger) :
          ledger[i].previous_hash = ledger[j].previous_hash => i = j

\* Two casts for different elections, under way at the same time, have both
\* appended their block.
C16_Witness ==
    /\ Len(ledger) = 2
    /\ ledger[1].election_id # ledger[2].election_id
    /\ \A t \in Threads : pc[t] = "cast_push"

-----------------------------------------------------------------------------
(* cast_vote: C21, C27, C28                                                *)

C21_FirstFailureDecides ==
    /\ (Rejected /\ resp'.op = "cast" /\ resp'.election_id = UnknownElection) =>
          resp'.status = 404 /\ resp'.detail = "Election not found."
    /\ (Rejected /\ resp'.op = "cast" /\ resp'.election_id \in Elections
          /\ ~Declared(resp')) =>
          /\ resp'.status = 404
          /\ resp'.detail = "Candidate not found in election."
    /\ (Rejected /\ resp'.op = "cast"
          /\ resp'.detail = "Voter has already voted.") =>
          Declared(resp') /\ EntriesOf(resp'.election_id, resp'.epic_id) # {}
    /\ \A t \in Threads :
          (ledger' # ledger /\ pc[t] = "cast_ledger" /\ pc'[t] = "cast_push") =>
             /\ loc[t].election_id \in Elections
             /\ loc[t].candidate_name \in CandidateNames(loc[t].election_id)
             /\ EntriesOf(loc[t].election_id, loc[t].epic_id) = {}

\* C21: cast_vote checks the election, then the candidate, then the prior
\* vote, and appends to the ledger only when all three pass: an undeclared
\* candidate is answered 404 "Candidate not found in election." also for a
\* voter who has an entry in the election, and an unknown election is answered
\* 404 "Election not found." whatever the candidate and the voter are.
C21_ChecksRunInOrder == [][C21_FirstFailureDecides]_vars

\* An undeclared candidate was refused for a voter who has an entry in the
\* election.
C21_Witness ==
    /\ resp.op = "cast"
    /\ resp.detail = "Candidate not found in election."
    /\ resp.election_id \in Elections
    /\ EntriesOf(resp.election_id, resp.epic_id) # {}

-----------------------------------------------------------------------------
(* The ledger encoding and what reconcile writes: C22 - C26                *)

\* The entry holds exactly the values its ledger block was written from.
AsCast(v) ==
    /\ Blocks(v.transaction_id) # {}
    /\ v.epic_id = LedgerPair(v.transaction_id)[1]
    /\ v.candidate = LedgerPair(v.transaction_id)[2]

C22_UnmodifiedIsVerified ==
    \A t \in Threads :
        (Checks(t) /\ AsCast(loc[t].votes[loc[t].i])) =>
            LET v == loc[t].votes[loc[t].i]
                k == query_blockchain_transaction(v.transaction_id)
            IN  /\ ~k.raised /\ contains(k.key, dash)
                /\ split1(k.key, dash) = <<v.epic_id, v.candidate>>
                /\ VerifiedAfter(t) =
                      Append(loc[t].verified,
                             [transaction_id |-> v.transaction_id,
                              epic_id |-> v.epic_id, candidate |-> v.candidate])
                /\ CorrectedAfter(t) = loc[t].corrected
                /\ votes' = votes

\* C22: an entry that still holds the epic_id and candidate its cast wrote is
\* reported as verified by the next reconcile and is not written, and the pair
\* reconcile decodes from the ledger payload is the pair the cast encoded,
\* also for an epic_id that holds '-' or surrounding whitespace.
C22_LedgerRoundTrip == [][C22_UnmodifiedIsVerified]_vars

\* The election of the cast that wrote the ledger record of a transaction id.
WrittenFor(txn) == {ledger[i].cast_for : i \in Blocks(txn)}

C23_VerifiedIsOfThisElection ==
    \A t \in Threads :
        (Checks(t) /\ Len(VerifiedAfter(t)) > Len(loc[t].verified)) =>
            WrittenFor(loc[t].votes[loc[t].i].transaction_id) = {loc[t].election_id}

\* C23: reconcile of election e reports an entry as verified only if the
\* ledger record under the entry's transaction id was written by a cast for e;
\* an entry that carries the transaction id of a vote cast in another election
\* is not reported as verified.
C23_RecordBindsElection == [][C23_VerifiedIsOfThisElection]_vars

\* Thread t's cast_vote call takes a step.
Casts(t) ==
    \/ pc[t] \in {"cast_ledger", "cast_push"} /\ pc'[t] # pc[t]
    \/ Accepted(t)
    \/ Rejected /\ resp'.op = "cast"

C24_OnlyEpicAndCandidateWritten ==
    \A t \in Threads :
        /\ Checks(t) =>
              LET e == loc[t].election_id
              IN  /\ Len(votes'[e]) = Len(votes[e])
                  /\ \A j \in 1..Len(votes[e]) :
                        votes'[e][j].transaction_id = votes[e][j].transaction_id
                  /\ \A other \in Elections \ {e} : votes'[other] = votes[other]
        /\ Casts(t) =>
              \A e \in Elections :
                  /\ Len(votes'[e]) >= Len(votes[e])
                  /\ SubSeq(votes'[e], 1, Len(votes[e])) = votes[e]

\* C24: reconcile of election e writes nothing but the epic_id and candidate of
\* entries of e: the entries of e keep their number, their places and their
\* transaction ids, and the vote lists of the other elections stay as they
\* were; a cast leaves every existing entry as it was.
C24_ReconcileFrame == [][C24_OnlyEpicAndCandidateWritten]_vars

\* A reconcile has corrected the first of two entries while the other
\* election holds no part in it.
C24_Witness ==
    /\ resp.op = "verify" /\ resp.status = 200
    /\ "corrected" \in DOMAIN resp
    /\ resp.corrected # <<>>
    /\ Len(votes[resp.election_id]) >= 2
    /\ resp.corrected[1].transaction_id = votes[resp.election_id][1].transaction_id

\* No two entries of the list carry the same epic_id.
OnePerEpic(vs) == \A i, j \in 1..Len(vs) : vs[i].epic_id = vs[j].epic_id => i = j

C25_ReconcileKeepsOnePerEpic ==
    \A t \in Threads :
        (Completes(t) /\ OnePerEpic(loc[t].votes)) =>
            OnePerEpic(votes'[loc[t].election_id])

\* C25: when the vote list of an election holds at most one entry per epic_id
\* as reconcile reads it, it holds at most one entry per epic_id when
\* reconcile returns.
C25_ReconcilePreservesOneVote == [][C25_ReconcileKeepsOnePerEpic]_vars

\* Thread t's verify call handles an entry in this step, in a behaviour whose
\* calls interleave.
ChecksNow(t) == pc[t] = "verify_loop" /\ (pc'[t] # pc[t] \/ loc'[t] # loc[t])

C26_NoLostUpdate ==
    \A t \in Threads :
        /\ (pc[t] = "cast_push" /\ pc'[t] = "idle") =>
              votes'["E1"] = Append(votes["E1"],
                                    VoteEntry(loc[t].epic_id, loc[t].candidate_name,
                                              loc[t].txn_id))
        /\ ChecksNow(t) =>
              LET v == loc[t].votes[loc[t].i]
              IN  /\ Len(votes'["E1"]) = Len(votes["E1"])
                  /\ \A j \in 1..Len(votes["E1"]) :
                        (votes["E1"][j].transaction_id # v.transaction_id
                            \/ j > Len(loc[t].votes))
                        => votes'["E1"][j] = votes["E1"][j]
        /\ (ChecksNow(t) /\ pc'[t] = "idle"
              /\ \A u \in Threads \ {t} : pc[u] # "verify_loop") =>
              \A j \in 1..Len(loc[t].votes) :
                  Blocks(votes'["E1"][j].transaction_id) # {}
                      => Matches(votes'["E1"][j])

\* C26: with casts and reconciles of one election interleaving, the entry a
\* cast pushes is appended with its cast values and no reconcile that read the
\* list before the push writes it, each correction writes only the entry that
\* carries its transaction id, and when the last of the running reconciles
\* returns every entry it scanned equals the ledger's record for it
\* (surrounding whitespace aside).
C26_RacingUpdatesKept == [][C26_NoLostUpdate]_vars

\* What the claim says decides a cast: the election exists, the candidate is
\* declared and the election holds no entry of the epic_id.
MayCast(e, epic, cand) ==
    /\ e \in Elections
    /\ cand \in CandidateNames(e)
    /\ EntriesOf(e, epic) = {}

C27_RegistryNotConsulted ==
    \A t \in Threads :
        /\ Accepted(t) =>
              MayCast(loc'[t].election_id, loc'[t].epic_id, loc'[t].candidate_name)
        /\ (Rejected /\ resp'.op = "cast") =>
              ~MayCast(resp'.election_id, resp'.epic_id, resp'.candidate_name)
        /\ (pc[t] = "cast_ledger" /\ ledger' # ledger) => pc'[t] = "cast_push"
        /\ (pc[t] = "cast_push" /\ votes' # votes) =>
              /\ resp'.op = "cast" /\ resp'.status = 200
              /\ votes'[loc[t].election_id] =
                    Append(votes[loc[t].election_id],
                           VoteEntry(loc[t].epic_id, loc[t].candidate_name,
                                     loc[t].txn_id))

\* C27: a cast passes its validations exactly when the election exists, the
\* candidate is declared and the election holds no entry of the epic_id, and
\* then succeeds when the ledger and the store answer, whether or not the
\* epic_id is enrolled and whatever its constituencies are.
C27_CastIgnoresRegistry == [][C27_RegistryNotConsulted]_vars

\* A cast succeeded while the store held the vote of a voter who is not
\* enrolled and the vote of a voter of another constituency.
C27_Witness ==
    /\ resp.op = "cast" /\ resp.status = 200
    /\ \E e \in Elections : \E j \in 1..Len(votes[e]) :
          check_vote(e, votes[e][j].epic_id).status = 404
    /\ \E e \in Elections : \E j \in 1..Len(votes[e]) :
          check_vote(e, votes[e][j].epic_id).status = 403

\* C28: when check_vote answers already_voted, its details carry the epic_id,
\* the candidate and the transaction id of the voter's entry in the election,
\* and the transaction id is not empty.
C28_DetailsCarryTheEntry ==
    (resp.op = "check" /\ resp.status = 200 /\ resp.result = "already_voted") =>
        /\ resp.details.txn # NoTxn
        /\ \E j \in EntriesOf(resp.election_id, resp.epic_id) :
              LET v == votes[resp.election_id][j]
              IN  /\ resp.details.epic_id = v.epic_id
                  /\ resp.details.candidate = v.candidate
                  /\ resp.details.txn = v.transaction_id

-----------------------------------------------------------------------------
(* District-admin approval and enrolment: C29, C30                         *)

\* Thread t's status update reaches the store in this step.
Updates(t) == pc[t] = "patch_update" /\ pc'[t] = "idle"

\* The admin document with the id is pending.
Pending(docs, admin_id) ==
    \E k \in 1..Len(docs) : docs[k]._id = admin_id /\ docs[k].status = "pending"

C29_OneWay ==
    /\ Len(admins') >= Len(admins)
    /\ \A k \in 1..Len(admins') :
          IF k > Len(admins) THEN admins'[k].status = "pending"
          ELSE /\ admins'[k]._id = admins[k]._id
               /\ admins'[k].email = admins[k].email
               /\ admins'[k].status # admins[k].status =>
                     /\ admins[k].status = "pending"
                     /\ admins'[k].status \in {"approved", "rejected"}
    /\ (Rejected /\ resp'.op = "patch") =>
          /\ resp'.new_status \notin {"approved", "rejected"}
          /\ resp'.status = 400
          /\ admins' = admins
    /\ \A t \in Threads :
          /\ (pc[t] = "idle" /\ pc'[t] = "patch_update") =>
                loc'[t].new_status \in {"approved", "rejected"} /\ admins' = admins
          /\ Updates(t) =>
                IF Pending(admins, loc[t].admin_id)
                THEN /\ resp'.status = 200
                     /\ resp'.admin.status = loc[t].new_status
                     /\ \E k \in 1..Len(admins) :
                           /\ admins[k]._id = loc[t].admin_id
                           /\ admins' = [admins EXCEPT ![k].status = loc[t].new_status]
                ELSE /\ resp'.status \in {400, 404}
                     /\ (loc[t].admin_id # BadAdminId) => resp'.status = 404
                     /\ admins' = admins

\* C29: an admin is created with status 'pending'; a status changes only from
\* 'pending' to 'approved' or 'rejected', by an update that asked for that
\* status; any other requested status is refused and changes nothing; an
\* update that reaches the store when the admin is no longer pending changes
\* nothing and answers 404, so of two updates racing for one pending admin
\* exactly one takes effect.
C29_ApprovalIsOneWay == [][C29_OneWay]_vars

\* One of two updates in flight for the same admin has taken effect while the
\* other, which asks for the other status, has not yet reached the store.
C29_Witness ==
    /\ resp.op = "patch" /\ resp.status = 200
    /\ \E t \in Threads :
          /\ pc[t] = "patch_update"
          /\ loc[t].admin_id = resp.admin_id
          /\ loc[t].new_status # resp.new_status
          /\ ~Pending(admins, loc[t].admin_id)

C30_OneRecordPerEpicNow ==
    \A d1, d2 \in voters : (d1._id = d2._id \/ d1.epic = d2.epic) => d1 = d2

C30_SaveOnce ==
    /\ voters \subseteq voters'
    /\ \A t \in Threads :
          /\ (pc[t] # "enroll_save") => (pc'[t] # pc[t] => voters' = voters)
          /\ (pc[t] = "enroll_save" /\ pc'[t] = "idle") =>
                IF get_voter(loc[t].epic) = {}
                THEN /\ resp'.status = 200
                     /\ voters' = voters \cup
                           {[_id |-> loc[t].epic, epic |-> loc[t].epic,
                             name |-> loc[t].name, face |-> loc[t].photo]}
                ELSE /\ resp'.status = 500
                     /\ voters' = voters

\* C30: the voters collection holds at most one record per EPIC; an enroll
\* that reaches its insert when a record of the EPIC exists fails and leaves
\* the record as it is, so of two enrolls of one EPIC whose checks and
\* inserts interleave exactly one stores its record, and no enroll ever
\* changes or removes a stored record.
C30_OneRecordPerEpic == []C30_OneRecordPerEpicNow /\ [][C30_SaveOnce]_vars

\* Two enrolls of one EPIC both passed the existence check; one stored its
\* record and the other failed at its insert.
C30_Witness ==
    /\ resp.op = "enroll" /\ resp.status = 500
    /\ \E d \in voters : d._id = resp.epic /\ d.name # resp.name

====
